---- MODULE Spec2Model ----
(***************************************************************************)
(* Session lifecycle and reconnection subsystem of the claude-code-web     *)
(* server (server/index.js): the session registry (allSessions), the       *)
(* connection binding table (wsSessions), the per-session output pipeline  *)
(* (outputBuffer / terminalBuffer / 16 ms flush timer), the reconnection   *)
(* handshake, the staleness sweeper and the close timeout.                 *)
(*                                                                         *)
(* Time.  The server is a single-threaded event loop, so every handler is  *)
(* one atomic action.  A pending timeout is a flag (a count, for the flush *)
(* timeouts of a session, or a queue entry, for the timeouts of            *)
(* reconnects, which fire in the order they were scheduled) and its        *)
(* callback is an action.  A 16 ms flush timeout that                      *)
(* is pending when a reconnect schedules its 200 ms or 500 ms timeout      *)
(* fires or is cancelled before that one, and so does the flush timeout    *)
(* that replaces it while it is pending.  The clock is abstracted to       *)
(* what the code compares: lastSeen[ws] tells whether now - ws.lastSeen    *)
(* is still within the 3-day threshold or beyond it.  The threshold is     *)
(* passed only when no short timeout (16 ms, 200 ms, 500 ms, 5 s) and no   *)
(* callback of `which claude` is pending, and a close timeout (3 days as   *)
(* well, started no earlier than the last message) fires only once the     *)
(* threshold is passed.  startClaudeCodeSession awaits a promise that is   *)
(* already settled, so it resumes before any timer, process or socket      *)
(* event is handled: the start of a session is one action (a message of    *)
(* the same socket read is taken as handled after it).                     *)
(*                                                                         *)
(* Data.  A chunk of process output is a sequence of symbols, "t" for text *)
(* or the name of a control sequence.  Every symbol a process produces is  *)
(* a unit, identified by its position in everything that process has       *)
(* produced; buffers and message payloads are sequences of units, so that  *)
(* concatenation, length and slice(-cap) are the string operations of the  *)
(* code.  A path is a sequence of characters, and validateAndNormalizePath *)
(* works on it as the code works on the string.                            *)
(*                                                                         *)
(* Observation.  `io` is what the last step emitted, in order: messages    *)
(* delivered to connections, writes to a process and HTTP responses,       *)
(* after the chunk the step received from a process, if it received one;   *)
(* `received` remembers which units each connection was sent, and how.     *)
(*                                                                         *)
(* Specifications.  Spec is the whole system on a host that has the claude *)
(* command: one session, one unit of output.  OutputSpec is the output     *)
(* pipeline of one session with more output, within three days.            *)
(* OwnershipSpec is the ownership of two sessions over time, with no       *)
(* output.  StartSpec is the start of sessions on a host that may lack the *)
(* claude command, with a session id that is generated twice.              *)
(* ReconnectSpec is one session with reconnects that overlap.  PathSpec is *)
(* validateAndNormalizePath alone, on every short path.  FlushLiveSpec is  *)
(* the output pipeline with timeouts that fire when they are due.          *)
(* ClientSpec is the message effect of the client's Terminal component     *)
(* (client/src/components/Terminal.js) on the messages App.js appends,     *)
(* with the server left as it starts.                                      *)
(***************************************************************************)
EXTENDS Integers, Sequences, FiniteSets, TLC

\* ---------------------------------------------------------------- bounds
\* The connections that may ever be accepted (in this order) and the ids
\* generateSessionId returns (in this order).
ConnOrder == << "wsA", "wsB" >>
SessionOrder == << "s1", "s2" >>
Conns == { ConnOrder[i] : i \in 1..Len(ConnOrder) }
SessionIds == { SessionOrder[i] : i \in 1..Len(SessionOrder) }
\* Rolling-buffer cap in units (the code's 50000 characters, scaled down).
TerminalBufferCap == 2
\* Reconnect timeouts (settle or nudge) pending at the same time.
MaxPendingTimers == 1
\* The scope of a behaviour: how many session ids are in use, how many units
\* of output the processes produce in all, and the paths clients send.
MaxSessions == 1
MaxUnits == 1
\* The scope of the behaviours of the output pipeline.
MaxOutputUnits == 3
\* The scope of the behaviours of session ownership.
MaxOwnedSessions == 2
\* The scope of the behaviours of concurrent reconnects: the reconnect
\* timeouts pending at the same time.
MaxConcurrentReconnects == 2
\* Messages a client is sent.
MaxClientMessages == 4
\* Units of output under the fair pipeline: a chunk, and one that arrives
\* before the timeout of the first fires.
MaxLiveUnits == 2

\* The chunks a process may emit, as sequences of symbols.
ChunkShapes == { << "t" >>, << "ESC[2J" >>, << "ESC[H", "t" >> }
\* A path is a sequence of characters: "a" for a letter, ".", "/", " " and
\* "NUL" for the null byte.
PathAlphabet == { "a", ".", "/", " ", "NUL" }
\* The longest path given to validateAndNormalizePath on its own.
MaxPathLen == 4
\* The length validateAndNormalizePath accepts at most.
PathLengthLimit == 4096
\* The values of WORKING_DIR_PREFIX: not set, and a directory.
NoPrefix == << >>
Prefixes == { NoPrefix, << "/", "a" >> }
\* Raw path inputs of start-session: a usable path, an absent path and a
\* traversal attempt.
NoPath == << >>
PathInputs == { << "/", "a" >>, NoPath, << ".", ".", "/", "a" >> }
ProcessCwd == << "/", "s" >>

NoWs == "none"
NoEntry == << "no-entry" >>
\* The sessionId of a message that carries none, and the ids a message may
\* carry.
NoTarget == ""
Targets == SessionIds \cup { NoTarget }

VARIABLES
    \* connections
    wsState,        \* ws.readyState: "new" (not yet accepted), "open", "closed"
    isAlive,        \* ws.isAlive
    lastSeen,       \* "recent" while now - ws.lastSeen <= threshold, else "stale"
    closeTimer,     \* TRUE while the close timeout of ws is scheduled
    wsSessions,     \* ws -> array of sessionIds, or NoEntry
    \* sessions
    allSessions,    \* keys of the allSessions map
    session,        \* sessionId -> the session object (it outlives its map entry)
    outputBuffer,   \* the outputBuffer of the handlers' closure
    flushTimer,     \* number of 16 ms flush timeouts that are scheduled
    bufferTimer,    \* TRUE while the closure's bufferTimer is a scheduled timeout
    dataListeners,  \* number of 'data' listeners on the process
    \* processes
    pty,            \* "none", "running", "exited"
    killed,         \* ptyProcess.killed
    signals,        \* signals sent to the process, in order
    whichErrors,    \* ws -> TRUE while a failed `which claude` is to call back
    \* timers
    restoreTimers,  \* pending 500 ms settle timeouts, in scheduling order
    nudgeTimers,    \* pending 200 ms nudge timeouts, in scheduling order
    killTimer,      \* TRUE while the 5 s force-kill timeout is scheduled
    \* observation
    scope,          \* the scope of the behaviour (it never changes)
    validation,     \* a call of validateAndNormalizePath: arguments and result
    terminal,       \* the Terminal component of a client and its message list
    produced,       \* sessionId -> every unit the process has produced
    io,             \* what the last step received and emitted, in order
    received        \* ws -> sessionId -> the units sent to ws, and how

vars == << wsState, isAlive, lastSeen, closeTimer, wsSessions,
           allSessions, session, outputBuffer, flushTimer, dataListeners,
           pty, killed, signals, whichErrors, restoreTimers, nudgeTimers,
           killTimer, scope, validation, produced, io, received, bufferTimer,
           terminal >>

connVars == << wsState, isAlive, lastSeen, closeTimer >>
procVars == << pty, killed, signals, whichErrors >>

\* ------------------------------------------------------------ sequences
\* String.prototype.slice(-n): the last n units (the whole string if shorter).
SliceLast(str, n) ==
    IF Len(str) <= n THEN str ELSE SubSeq(str, Len(str) - n + 1, Len(str))

\* Array.prototype.includes
Includes(seq, x) == \E i \in 1..Len(seq) : seq[i] = x

\* String.prototype.includes for a control sequence
OutputIncludes(shape, sym) == \E i \in 1..Len(shape) : shape[i] = sym

\* The units of a chunk of the given shape, produced after `base` units.
Units(shape, base) == [i \in 1..Len(shape) |-> base + i]

Positions(str) == { str[i] : i \in 1..Len(str) }

Without(seq, T) == SelectSeq(seq, LAMBDA x : x \notin T)

RemoveAt(seq, i) == SubSeq(seq, 1, i - 1) \o SubSeq(seq, i + 1, Len(seq))

RECURSIVE SumLen(_, _)
SumLen(f, S) ==
    IF S = {} THEN 0
    ELSE LET s == CHOOSE x \in S : TRUE IN Len(f[s]) + SumLen(f, S \ {s})

\* ------------------------------------------------------------- effects
\* An effect: a message to a connection, a write to a process ("pty") or
\* an HTTP response ("http").
Msg(to, type, sid, data) == [to |-> to, type |-> type, sid |-> sid, data |-> data]

IsOpen(ws) == ws \in Conns /\ wsState[ws] = "open"

\* ws.send: a message reaches the client only while the socket is OPEN
\* (ws 8 drops a send on a closed socket when no callback is given).
Delivered(msgs) == SelectSeq(msgs, LAMBDA m : m.to \in Conns => wsState[m.to] = "open")

IsCarrier(m) == m.to \in Conns /\ m.type \in { "output", "buffer-restore" }

\* The units a connection has been sent so far, after the messages `msgs`:
\* how is "restore-pre" / "restore-post" for a unit of a buffer-restore that
\* was / was not in the rolling buffer at the reconnect, "output" for a unit
\* of an output message, and "output-again-pre" / "output-again-post" for a
\* unit of an output message that the connection had already been sent as
\* "restore-pre" / "restore-post".
ReceivedAfter(msgs, pre) ==
    [ws \in Conns |-> [sid \in SessionIds |->
        received[ws][sid] \cup
        UNION { { << p, IF msgs[i].type = "buffer-restore"
                        THEN (IF p \in pre THEN "restore-pre" ELSE "restore-post")
                        ELSE IF << p, "restore-pre" >> \in received[ws][sid]
                             THEN "output-again-pre"
                        ELSE IF << p, "restore-post" >> \in received[ws][sid]
                             THEN "output-again-post"
                        ELSE "output" >>
                  : p \in Positions(msgs[i].data) }
                : i \in { j \in 1..Len(msgs) : /\ IsCarrier(msgs[j])
                                              /\ msgs[j].to = ws
                                              /\ msgs[j].sid = sid } }]]

\* Every step records what it emitted.
Emit(msgs, pre) ==
    /\ io' = Delivered(msgs)
    /\ received' = ReceivedAfter(Delivered(msgs), pre)

\* ------------------------------------------------------------- initial
NoSession == [ spawned        |-> FALSE,
               workingDir     |-> << >>,
               terminalBuffer |-> << >>,
               currentWs      |-> NoWs,
               handlersSetup  |-> FALSE,
               bufferTimer    |-> FALSE ]

\* Reconnect timeouts no longer wait for the flush timeouts of T.
Unblocked(timers, T) ==
    [i \in 1..Len(timers) |-> [timers[i] EXCEPT !.after = @ \ T]]

PendingFlushTimers == { sid \in SessionIds : flushTimer[sid] > 0 }

InitState ==
    /\ wsState = [c \in Conns |-> "new"]
    /\ isAlive = [c \in Conns |-> FALSE]
    /\ lastSeen = [c \in Conns |-> "recent"]
    /\ closeTimer = [c \in Conns |-> FALSE]
    /\ wsSessions = [c \in Conns |-> NoEntry]
    /\ allSessions = {}
    /\ session = [s \in SessionIds |-> NoSession]
    /\ outputBuffer = [s \in SessionIds |-> << >>]
    /\ flushTimer = [s \in SessionIds |-> 0]
    /\ bufferTimer = [s \in SessionIds |-> FALSE]
    /\ dataListeners = [s \in SessionIds |-> 0]
    /\ pty = [s \in SessionIds |-> "none"]
    /\ killed = [s \in SessionIds |-> FALSE]
    /\ signals = [s \in SessionIds |-> << >>]
    /\ whichErrors = [c \in Conns |-> FALSE]
    /\ restoreTimers = << >>
    /\ nudgeTimers = << >>
    /\ killTimer = [s \in SessionIds |-> FALSE]
    /\ produced = [s \in SessionIds |-> << >>]
    /\ io = << >>
    /\ received = [c \in Conns |-> [s \in SessionIds |-> {}]]

\* The result of a call of validateAndNormalizePath that has not returned.
NotValidated == [isValid |-> FALSE, error |-> "not called", normalizedPath |-> << >>]

\* The Terminal component when it is mounted: no message, no terminal
\* instance yet (xtermRef.current is null until the animation frame),
\* processedMessagesRef 0, processingRef false.  unprocessedMessages holds
\* the indices in `messages` of the slice a run of processMessages took, i
\* is the next place in it, awaiting tells that the run waits for the
\* timeout after a write, and written is what was written to the terminal,
\* in order.
NoTerminal ==
    [messages |-> << >>, xterm |-> FALSE, processedMessagesRef |-> 0,
     processingRef |-> FALSE, unprocessedMessages |-> << >>, i |-> 0,
     awaiting |-> FALSE, written |-> << >>]

\* No call of validateAndNormalizePath on its own.
NoValidation == [userPath |-> NoPath, prefix |-> NoPrefix, result |-> NotValidated]

Init ==
    /\ InitState
    /\ validation = NoValidation
    /\ terminal = NoTerminal
    /\ scope = [sessions |-> MaxSessions, units |-> MaxUnits, paths |-> PathInputs,
                timers |-> MaxPendingTimers, claude |-> {TRUE}, collisions |-> FALSE,
                prefix |-> NoPrefix]

InitOutput ==
    /\ InitState
    /\ validation = NoValidation
    /\ terminal = NoTerminal
    /\ scope = [sessions |-> 1, units |-> MaxOutputUnits, paths |-> {<< "/", "a" >>},
                timers |-> MaxPendingTimers, claude |-> {TRUE}, collisions |-> FALSE,
                prefix |-> NoPrefix]

InitOwnership ==
    /\ InitState
    /\ validation = NoValidation
    /\ terminal = NoTerminal
    /\ scope = [sessions |-> MaxOwnedSessions, units |-> 0, paths |-> {<< "/", "a" >>},
                timers |-> MaxPendingTimers, claude |-> {TRUE}, collisions |-> FALSE,
                prefix |-> NoPrefix]

\* Starting sessions: every path input, a host with or without the claude
\* command, and a session id that Math.random returns a second time.
InitStart ==
    /\ InitState
    /\ validation = NoValidation
    /\ terminal = NoTerminal
    /\ scope = [sessions |-> MaxSessions, units |-> 0, paths |-> PathInputs,
                timers |-> MaxPendingTimers, claude |-> BOOLEAN, collisions |-> TRUE,
                prefix |-> NoPrefix]

\* Reconnects that overlap: a second reconnect arrives while the timeout of
\* the first is pending.
InitReconnect ==
    /\ InitState
    /\ validation = NoValidation
    /\ terminal = NoTerminal
    /\ scope = [sessions |-> 1, units |-> MaxUnits, paths |-> {<< "/", "a" >>},
                timers |-> MaxConcurrentReconnects, claude |-> {TRUE},
                collisions |-> FALSE, prefix |-> NoPrefix]

\* ------------------------------------------------- path validation
\* String.prototype.includes
StrIncludes(str, pat) ==
    \E i \in 1..(Len(str) - Len(pat) + 1) : SubSeq(str, i, i + Len(pat) - 1) = pat

\* String.prototype.trim
RECURSIVE trim(_)
trim(str) ==
    IF str = << >> THEN str
    ELSE IF Head(str) = " " THEN trim(Tail(str))
    ELSE IF str[Len(str)] = " " THEN trim(SubSeq(str, 1, Len(str) - 1))
    ELSE str

\* The segments of a path between its slashes, empty ones included.
RECURSIVE Split(_, _)
Split(str, seg) ==
    IF str = << >> THEN << seg >>
    ELSE IF Head(str) = "/" THEN << seg >> \o Split(Tail(str), << >>)
    ELSE Split(Tail(str), Append(seg, Head(str)))

\* Normalisation of segments: "" and "." are dropped, ".." drops the
\* segment before it (nothing at the root).
RECURSIVE normalizeSegments(_, _)
normalizeSegments(segs, acc) ==
    IF segs = << >> THEN acc
    ELSE IF Head(segs) = << >> \/ Head(segs) = << "." >>
         THEN normalizeSegments(Tail(segs), acc)
    ELSE IF Head(segs) = << ".", "." >>
         THEN normalizeSegments(Tail(segs),
                                IF acc = << >> THEN acc ELSE SubSeq(acc, 1, Len(acc) - 1))
    ELSE normalizeSegments(Tail(segs), Append(acc, Head(segs)))

RECURSIVE Join(_)
Join(segs) ==
    IF segs = << >> THEN << >> ELSE << "/" >> \o Head(segs) \o Join(Tail(segs))

\* The segments of path.resolve(str): a relative path is resolved against
\* the current directory of the server.
resolvedSegments(str) ==
    normalizeSegments(Split(IF str # << >> /\ Head(str) = "/" THEN str
                            ELSE ProcessCwd \o << "/" >> \o str, << >>), << >>)

\* path.resolve(str)
pathResolve(str) ==
    IF resolvedSegments(str) = << >> THEN << "/" >> ELSE Join(resolvedSegments(str))

Rejected(error) == [isValid |-> FALSE, error |-> error, normalizedPath |-> << >>]

\* The test for parent directory traversal: "../" anywhere in the path.
traversesUp(trimmedPath) == StrIncludes(trimmedPath, << ".", ".", "/" >>)

\* validateAndNormalizePath(userPath), with the value of WORKING_DIR_PREFIX
\* it reads.
validateAndNormalizePath(userPath, workingDirPrefix) ==
    LET trimmedPath == trim(userPath)
        prefix == trim(workingDirPrefix)
        prefixWithSlash == IF prefix[Len(prefix)] = "/" THEN prefix
                           ELSE prefix \o << "/" >>
        prefixed == IF prefix # << >>
                    THEN prefixWithSlash \o (IF Head(trimmedPath) = "/"
                                             THEN Tail(trimmedPath) ELSE trimmedPath)
                    ELSE trimmedPath
    IN  IF userPath = << >> \/ trimmedPath = << >> THEN Rejected("Path cannot be empty")
        ELSE IF StrIncludes(trimmedPath, << "NUL" >>)
             THEN Rejected("Invalid characters in path")
        ELSE IF Len(trimmedPath) > PathLengthLimit THEN Rejected("Path too long")
        ELSE IF traversesUp(trimmedPath)
             THEN Rejected("Parent directory traversal not allowed")
        ELSE IF StrIncludes(trimmedPath, << ".", "/" >>)
             THEN Rejected("Current directory references not allowed")
        ELSE IF StrIncludes(trimmedPath, << "/", "/" >>) THEN Rejected("Invalid path format")
        ELSE [isValid |-> TRUE, error |-> "", normalizedPath |-> pathResolve(prefixed)]

\* getWorkingDirPrefix(): process.env.WORKING_DIR_PREFIX || ''
getWorkingDirPrefix == scope.prefix

\* Every path of at most n characters.
RECURSIVE PathsUpTo(_)
PathsUpTo(n) ==
    IF n = 0 THEN { << >> }
    ELSE PathsUpTo(n - 1)
         \cup { Append(str, c) : str \in { s \in PathsUpTo(n - 1) : Len(s) = n - 1 },
                                 c \in PathAlphabet }

\* validateAndNormalizePath on its own: any path of at most MaxPathLen
\* characters, with and without a configured prefix.
InitPath ==
    /\ InitState
    /\ scope = [sessions |-> 0, units |-> 0, paths |-> {}, timers |-> 0,
                claude |-> {TRUE}, collisions |-> FALSE,
                prefix |-> NoPrefix]
    /\ validation \in [userPath : PathsUpTo(MaxPathLen), prefix : Prefixes,
                        result : {NotValidated}]
    /\ terminal = NoTerminal

\* A call of validateAndNormalizePath on its own.
ValidatePath ==
    /\ validation.result = NotValidated
    /\ validation' = [validation EXCEPT
                         !.result = validateAndNormalizePath(validation.userPath,
                                                             validation.prefix)]
    /\ UNCHANGED << connVars, wsSessions, allSessions, session, outputBuffer,
                    flushTimer, bufferTimer, dataListeners, procVars, restoreTimers,
                    nudgeTimers, killTimer, scope, terminal, produced, io, received >>

\* ------------------------------------------------- the session registry
\* Nothing is left of the session that had the id: it is out of the map,
\* its process has exited and none of its timeouts is pending.
Gone(sid) ==
    /\ session[sid].spawned
    /\ sid \notin allSessions
    /\ pty[sid] = "exited"
    /\ flushTimer[sid] = 0 /\ ~killTimer[sid]
    /\ \A i \in 1..Len(restoreTimers) : restoreTimers[i].sid # sid
    /\ \A i \in 1..Len(nudgeTimers) : nudgeTimers[i].sid # sid

\* generateSessionId: nine base-36 digits of Math.random(), compared with
\* nothing.  It returns an id that was never returned before (the first
\* unused id of SessionOrder; none once all are used) or, where the scope
\* has Math.random repeat itself, an id it returned before; the repeated id
\* is one of whose former session nothing is left.
generateSessionId ==
    { SessionOrder[i] : i \in { j \in 1..Len(SessionOrder) :
                                   /\ ~session[SessionOrder[j]].spawned
                                   /\ \A k \in 1..(j - 1) : session[SessionOrder[k]].spawned } }
    \cup (IF scope.collisions THEN { sid \in SessionIds : Gone(sid) } ELSE {})

\* A guard of reconnectToSession that looks at the killed flag only.
ReconnectRejectedKilledOnly(sid) == killed[sid]

\* The guard of reconnectToSession: the session is not in the map, or its
\* process is flagged killed.
ReconnectRejected(sid) ==
    \/ sid \notin allSessions
    \/ ~session[sid].spawned
    \/ killed[sid]

\* A lookup that still finds a session that was removed from the map.
sessionFoundEverStarted(sid) == session[sid].spawned

\* The guard of DELETE /api/sessions/:sessionId: allSessions.get(sessionId)
sessionFound(sid) == sid \in allSessions

\* A staleness test that counts only connections seen beyond the
\* threshold (the comparison reversed).
hasActiveConnectionReversed(sid) ==
    \E ws \in Conns :
        /\ wsSessions[ws] # NoEntry
        /\ Includes(wsSessions[ws], sid)
        /\ lastSeen[ws] = "stale"

\* The sweeper's hasActiveConnection: some binding-table entry lists the
\* session and its connection was seen within the threshold.
hasActiveConnection(sid) ==
    \E ws \in Conns :
        /\ wsSessions[ws] # NoEntry
        /\ Includes(wsSessions[ws], sid)
        /\ lastSeen[ws] = "recent"

\* The sessions the sweep cleans up.
StaleSessions ==
    { sid \in allSessions : session[sid].spawned /\ ~killed[sid]
                            /\ ~hasActiveConnection(sid) }

\* The sessions cleanupSession(ws) cleans up.  The loop iterates the array
\* of ws with an index while cleanupSessionById splices the cleaned id out
\* of that same array, so the element after a cleaned one is skipped.
RECURSIVE cleanupSessionLoop(_, _, _)
cleanupSessionLoop(ws, sessionIds, i) ==
    IF i > Len(sessionIds) THEN {}
    ELSE IF sessionIds[i] \in allSessions /\ session[sessionIds[i]].currentWs = ws
         THEN {sessionIds[i]} \cup cleanupSessionLoop(ws, RemoveAt(sessionIds, i), i + 1)
         ELSE cleanupSessionLoop(ws, sessionIds, i + 1)

\* A cleanup that terminates every registered session in the array of the
\* connection, whoever owns it.
cleanupSessionWhoeverOwns(ws) ==
    IF wsSessions[ws] = NoEntry THEN {}
    ELSE { sid \in allSessions : Includes(wsSessions[ws], sid) }

cleanupSession(ws) ==
    cleanupSessionLoop(ws, IF wsSessions[ws] = NoEntry THEN << >> ELSE wsSessions[ws], 1)

\* A close handler that cleans up the sessions of the connection at once.
sessionsCleanedOnCloseAtOnce(ws) == cleanupSession(ws)

\* ws.on('close') cleans up no session itself: it only starts the timeout.
sessionsCleanedOnClose(ws) == {}

\* A cleanup that leaves the binding-table arrays as they are.
bindingAfterCleanupKept(sessionIds, V) == sessionIds

\* cleanupSessionById removes the id from every binding-table array.
bindingAfterCleanup(sessionIds, V) == Without(sessionIds, V)

\* A timeout that was scheduled and is passed to clearTimeout without being
\* cancelled.
clearTimeoutNot(n, scheduled) == n

\* clearTimeout(timer): a timeout that is scheduled is cancelled; one that
\* has fired or was cancelled before is left alone.
clearTimeout(n, scheduled) == IF scheduled /\ n > 0 THEN n - 1 ELSE n

\* A cleanup that leaves the sessions in the map.
registryAfterCleanupKept(V) == allSessions

\* cleanupSessionById: allSessions.delete(sessionId)
registryAfterCleanup(V) == allSessions \ V

\* cleanupSessionById for every id of T (the calls for different ids are
\* independent); `dropped` are the connections whose binding-table entry
\* the caller deletes afterwards.
cleanupSessionById(T, dropped) ==
    LET V == { sid \in T : sid \in allSessions /\ session[sid].spawned }
        cleared == { sid \in V : session[sid].bufferTimer }
    IN
    /\ flushTimer' = [sid \in SessionIds |->
                         IF sid \in cleared
                         THEN clearTimeout(flushTimer[sid], bufferTimer[sid])
                         ELSE flushTimer[sid]]
    /\ bufferTimer' = [sid \in SessionIds |-> bufferTimer[sid] /\ sid \notin cleared]
    /\ restoreTimers' = Unblocked(restoreTimers, { sid \in cleared : flushTimer'[sid] = 0 })
    /\ nudgeTimers' = Unblocked(nudgeTimers, { sid \in cleared : flushTimer'[sid] = 0 })
    /\ signals' = [sid \in SessionIds |->
                         IF sid \in V /\ ~killed[sid] THEN Append(signals[sid], "SIGTERM")
                         ELSE signals[sid]]
    /\ killTimer' = [sid \in SessionIds |->
                         IF sid \in V /\ ~killed[sid] THEN TRUE ELSE killTimer[sid]]
    /\ allSessions' = registryAfterCleanup(V)
    /\ wsSessions' = [ws \in Conns |->
                         IF ws \in dropped \/ wsSessions[ws] = NoEntry THEN NoEntry
                         ELSE bindingAfterCleanup(wsSessions[ws], V)]

\* ------------------------------------------------- the output pipeline
\* session.terminalBuffer += output, then keep the last cap units.
AppendCapped(terminalBuffer, output) ==
    IF Len(terminalBuffer \o output) > TerminalBufferCap
    THEN SliceLast(terminalBuffer \o output, TerminalBufferCap)
    ELSE terminalBuffer \o output

\* The state one run of a pipeline handler reads and writes: the closure's
\* outputBuffer (ob), session.terminalBuffer (tb), the number of scheduled
\* timeouts (timer), whether the closure's bufferTimer is one of them
\* (handle), session.bufferTimer (bt) and the messages sent (out).
flushBuffer(h, sid, ws, live) ==
    IF h.ob # << >> /\ live
    THEN [h EXCEPT !.out = Append(@, Msg(ws, "output", sid, h.ob)),
                   !.ob = << >>, !.handle = FALSE, !.bt = FALSE]
    ELSE [h EXCEPT !.handle = FALSE, !.bt = FALSE]

\* setTimeout(flushBuffer, 16): one more timeout is scheduled.
setTimeout(n) == n + 1

\* An accumulator that puts a new chunk before the chunks it holds.
accumulatePrepended(ob, output) == output \o ob

\* outputBuffer += output
accumulate(ob, output) == ob \o output

\* A test that takes the screen-clear sequence alone for a reason to flush.
flushesImmediatelyClearOnly(shape) == OutputIncludes(shape, "ESC[2J")

\* output.includes('\x1b[2J') || output.includes('\x1b[H')
flushesImmediately(shape) ==
    OutputIncludes(shape, "ESC[2J") \/ OutputIncludes(shape, "ESC[H")

\* ptyProcess.on('data'): nothing is done unless the current WebSocket is
\* open.
onData(h, sid, ws, live, shape, output) ==
    IF live
    THEN LET h1 == [h EXCEPT !.ob = accumulate(@, output),
                             !.tb = AppendCapped(@, output),
                             !.timer = clearTimeout(@, h.handle)]
         IN  IF flushesImmediately(shape)
             THEN flushBuffer(h1, sid, ws, live)
             ELSE [h1 EXCEPT !.timer = setTimeout(@), !.handle = TRUE, !.bt = TRUE]
    ELSE h

\* The event emitter calls every installed 'data' listener in turn.
RECURSIVE emitData(_, _, _, _, _, _, _)
emitData(h, sid, ws, live, shape, output, n) ==
    IF n = 0 THEN h
    ELSE emitData(onData(h, sid, ws, live, shape, output), sid, ws, live, shape, output,
                  n - 1)

\* setupSessionEventHandlers: the number of 'data' listeners afterwards.
\* With handlersSetup set nothing is installed; otherwise the existing
\* listeners are removed and one is added.
listenersAfterSetupAgain(handlersSetup, n) == n + 1

listenersAfterSetup(handlersSetup, n) ==
    IF handlersSetup THEN n ELSE 1

Pipeline(sid) ==
    [ob |-> outputBuffer[sid], tb |-> session[sid].terminalBuffer,
     timer |-> flushTimer[sid], handle |-> bufferTimer[sid],
     bt |-> session[sid].bufferTimer, out |-> << >>]

StorePipeline(sid, h) ==
    /\ outputBuffer' = [outputBuffer EXCEPT ![sid] = h.ob]
    /\ flushTimer' = [flushTimer EXCEPT ![sid] = h.timer]
    /\ bufferTimer' = [bufferTimer EXCEPT ![sid] = h.handle]
    /\ restoreTimers' = Unblocked(restoreTimers, IF h.timer > 0 THEN {} ELSE {sid})
    /\ nudgeTimers' = Unblocked(nudgeTimers, IF h.timer > 0 THEN {} ELSE {sid})
    /\ session' = [session EXCEPT ![sid].terminalBuffer = h.tb,
                                  ![sid].bufferTimer = h.bt]

\* ------------------------------------------------- connection handlers
\* ws.on('message') before the switch: the connection was seen.
Seen(ws) ==
    /\ lastSeen' = [lastSeen EXCEPT ![ws] = "recent"]
    /\ isAlive' = [isAlive EXCEPT ![ws] = TRUE]
    /\ UNCHANGED << wsState, closeTimer >>

\* wss.on('connection')
WsConnect(ws) ==
    /\ wsState[ws] = "new"
    /\ \A i, j \in 1..Len(ConnOrder) :
          (i < j /\ ConnOrder[j] = ws) => wsState[ConnOrder[i]] # "new"
    /\ wsState' = [wsState EXCEPT ![ws] = "open"]
    /\ isAlive' = [isAlive EXCEPT ![ws] = TRUE]
    /\ lastSeen' = [lastSeen EXCEPT ![ws] = "recent"]
    /\ wsSessions' = [wsSessions EXCEPT ![ws] = << >>]
    /\ Emit(<< >>, {})
    /\ UNCHANGED << closeTimer, allSessions, session, outputBuffer, flushTimer, bufferTimer,
                    dataListeners, procVars, restoreTimers, nudgeTimers, killTimer,
                    scope, validation, terminal, produced >>

\* case 'ping'
Ping(ws) ==
    /\ IsOpen(ws)
    /\ Seen(ws)
    /\ Emit(<< Msg(ws, "pong", "", "") >>, {})
    /\ UNCHANGED << wsSessions, allSessions, session, outputBuffer, flushTimer, bufferTimer,
                    dataListeners, procVars, restoreTimers, nudgeTimers, killTimer,
                    scope, validation, terminal, produced >>

\* case 'start-session' with a path that validation rejects.  The handler
\* validates workingDir || process.cwd().
StartSessionInvalid(ws, path) ==
    LET v == validateAndNormalizePath(IF path = NoPath THEN ProcessCwd ELSE path,
                                      getWorkingDirPrefix) IN
    /\ IsOpen(ws)
    /\ path \in scope.paths
    /\ ~v.isValid
    /\ Seen(ws)
    /\ Emit(<< Msg(ws, "error", "", v.error) >>, {})
    /\ UNCHANGED << wsSessions, allSessions, session, outputBuffer, flushTimer, bufferTimer,
                    dataListeners, procVars, restoreTimers, nudgeTimers, killTimer,
                    scope, validation, terminal, produced >>

\* exec('which claude', callback): the callback of a failed lookup is left
\* to run later (one at a time for a connection); the callback of a
\* successful one only logs.
whichAfterExec(ws, found) ==
    IF found THEN whichErrors ELSE [whichErrors EXCEPT ![ws] = TRUE]

\* case 'start-session' with an accepted path, when spawn throws: the catch
\* block of startClaudeCodeSession reports it.
StartSessionSpawnFails(ws, path, found) ==
    LET v == validateAndNormalizePath(IF path = NoPath THEN ProcessCwd ELSE path,
                                      getWorkingDirPrefix) IN
    /\ IsOpen(ws)
    /\ path \in scope.paths
    /\ found \in scope.claude
    /\ ~found => ~whichErrors[ws]
    /\ v.isValid
    /\ Seen(ws)
    /\ whichErrors' = whichAfterExec(ws, found)
    /\ Emit(<< Msg(ws, "path-info", "", v.normalizedPath),
               Msg(ws, "error", "", "Failed to start Claude Code session") >>, {})
    /\ UNCHANGED << wsSessions, allSessions, session, outputBuffer, flushTimer, bufferTimer,
                    dataListeners, pty, killed, signals, restoreTimers, nudgeTimers,
                    killTimer, scope, validation, terminal, produced >>

\* case 'start-session' with an accepted path, when spawn returns a
\* process: startClaudeCodeSession.  `found` is the outcome of `which
\* claude`, which the code does not wait for.
StartSession(ws, path, found) ==
    LET v == validateAndNormalizePath(IF path = NoPath THEN ProcessCwd ELSE path,
                                      getWorkingDirPrefix) IN
    /\ IsOpen(ws)
    /\ path \in scope.paths
    /\ found \in scope.claude
    /\ ~found => ~whichErrors[ws]
    /\ v.isValid
    /\ \E sid \in generateSessionId :
        /\ session[sid].spawned
              \/ Cardinality({ s \in SessionIds : session[s].spawned }) < scope.sessions
        /\ pty' = [pty EXCEPT ![sid] = "running"]
        /\ killed' = [killed EXCEPT ![sid] = FALSE]
        /\ signals' = [signals EXCEPT ![sid] = << >>]
        /\ produced' = [produced EXCEPT ![sid] = << >>]
        /\ outputBuffer' = [outputBuffer EXCEPT ![sid] = << >>]
        /\ session' = [session EXCEPT ![sid] =
                          [ spawned        |-> TRUE,
                            workingDir     |-> v.normalizedPath,
                            terminalBuffer |-> << >>,
                            currentWs      |-> ws,
                            handlersSetup  |-> TRUE,
                            bufferTimer    |-> FALSE ]]
        /\ allSessions' = allSessions \cup {sid}
        /\ wsSessions' = [wsSessions EXCEPT ![ws] =
                             Append(IF @ = NoEntry THEN << >> ELSE @, sid)]
        /\ dataListeners' = [dataListeners EXCEPT ![sid] = listenersAfterSetup(FALSE, @)]
        /\ io' = Delivered(<< Msg(ws, "path-info", "", v.normalizedPath),
                              Msg(ws, "session-started", sid, "") >>)
        /\ received' = [c \in Conns |-> [received[c] EXCEPT ![sid] = {}]]
    /\ whichErrors' = whichAfterExec(ws, found)
    /\ Seen(ws)
    /\ UNCHANGED << flushTimer, bufferTimer, restoreTimers, nudgeTimers, killTimer,
                    scope, validation, terminal >>

\* The callback of a failed `which claude`: the error message, nothing else.
WhichFails(ws) ==
    /\ whichErrors[ws]
    /\ whichErrors' = [whichErrors EXCEPT ![ws] = FALSE]
    /\ Emit(<< Msg(ws, "error", "",
                 "Claude CLI not found. Please install Claude Code CLI first.") >>, {})
    /\ UNCHANGED << connVars, wsSessions, allSessions, session, outputBuffer,
                    flushTimer, bufferTimer, dataListeners, pty, killed, signals, restoreTimers,
                    nudgeTimers, killTimer, scope, validation, terminal, produced >>

\* A reconnect that leaves a session with the open connection it has.
ownerAfterReconnectFirstWins(ws, sid) ==
    IF IsOpen(session[sid].currentWs) THEN session[sid].currentWs ELSE ws

\* foundSession.currentWs = ws: the connection that asks becomes the owner.
ownerAfterReconnect(ws, sid) == ws

\* A reconnect that takes the restore branch whatever the buffer holds.
restoresBufferAlways(sid) == TRUE

\* The branch reconnectToSession takes: the rolling buffer is restored when
\* it is not empty.
restoresBuffer(sid) == session[sid].terminalBuffer # << >>

\* A reconnect that sends the refresh before the acknowledgment.
reconnectRepliesRefreshFirst(ws, sid) ==
    (IF restoresBuffer(sid) THEN << >> ELSE << Msg(ws, "terminal-refresh", sid, "") >>)
    \o << Msg(ws, "session-reconnected", sid, session[sid].workingDir) >>

\* What reconnectToSession sends before it returns: session-reconnected,
\* then terminal-refresh when there is no buffer to restore.
reconnectReplies(ws, sid) ==
    << Msg(ws, "session-reconnected", sid, session[sid].workingDir) >>
    \o (IF restoresBuffer(sid) THEN << >> ELSE << Msg(ws, "terminal-refresh", sid, "") >>)

\* case 'reconnect-session': reconnectToSession
\* A reconnect that pushes the id without looking for it in the array.
listedAfterReconnectPushed(sessionIds, sid) == Append(sessionIds, sid)

\* reconnectToSession: if (!sessionIds.includes(sessionId)) push(sessionId)
listedAfterReconnect(sessionIds, sid) ==
    IF Includes(sessionIds, sid) THEN sessionIds ELSE Append(sessionIds, sid)

ReconnectSession(ws, sid) ==
    /\ IsOpen(ws)
    /\ Seen(ws)
    /\ IF ReconnectRejected(sid)
       THEN /\ Emit(<< Msg(ws, "error", "", "Session not found or terminated") >>, {})
            /\ UNCHANGED << wsSessions, session, dataListeners, restoreTimers,
                            nudgeTimers >>
       ELSE /\ Len(restoreTimers) + Len(nudgeTimers) < scope.timers
            /\ wsSessions' = [wsSessions EXCEPT ![ws] =
                                 listedAfterReconnect(IF @ = NoEntry THEN << >> ELSE @,
                                                      sid)]
            /\ session' = [session EXCEPT ![sid].currentWs = ownerAfterReconnect(ws, sid),
                                          ![sid].bufferTimer = FALSE,
                                          ![sid].handlersSetup = TRUE]
            /\ dataListeners' = [dataListeners EXCEPT ![sid] =
                                    listenersAfterSetup(session[sid].handlersSetup, @)]
            /\ Emit(reconnectReplies(ws, sid), {})
            /\ IF restoresBuffer(sid)
               THEN /\ restoreTimers' =
                          Append(restoreTimers,
                                 [ws |-> ws, sid |-> sid,
                                  pre |-> Positions(session[sid].terminalBuffer),
                                  after |-> PendingFlushTimers])
                    /\ nudgeTimers' = nudgeTimers
               ELSE /\ nudgeTimers' = Append(nudgeTimers,
                                            [sid |-> sid, after |-> PendingFlushTimers])
                    /\ restoreTimers' = restoreTimers
    /\ UNCHANGED << allSessions, outputBuffer, flushTimer, bufferTimer, procVars, killTimer,
                    scope, validation, terminal, produced >>

\* A fallback that takes a session of the array whoever it is bound to.
boundToAny(sid, ws) == TRUE

\* handleInput, handleResize: session.currentWs === ws
boundTo(sid, ws) == session[sid].currentWs = ws

\* The session handleInput and handleResize act on.  A message that names a
\* session reaches it if it is in the map and its process is not flagged
\* killed; a message that names none falls back to the first session of the
\* connection's array that is in the map, not flagged killed and currently
\* bound to the connection.
targetSession(ws, target) ==
    IF target # NoTarget
    THEN IF target \in allSessions /\ session[target].spawned /\ ~killed[target]
         THEN {target} ELSE {}
    ELSE LET sessionIds == IF wsSessions[ws] = NoEntry THEN << >> ELSE wsSessions[ws]
             active == { i \in 1..Len(sessionIds) :
                           /\ sessionIds[i] \in allSessions
                           /\ session[sessionIds[i]].spawned
                           /\ ~killed[sessionIds[i]]
                           /\ boundTo(sessionIds[i], ws) }
         IN  IF active = {} THEN {}
             ELSE { sessionIds[CHOOSE i \in active : \A j \in active : i <= j] }

\* case 'input': handleInput
Input(ws, target) ==
    /\ IsOpen(ws)
    /\ Seen(ws)
    /\ IF targetSession(ws, target) = {}
       THEN Emit(<< >>, {})
       ELSE \E sid \in targetSession(ws, target) :
               Emit(<< Msg("pty", "write", sid, "input") >>, {})
    /\ UNCHANGED << wsSessions, allSessions, session, outputBuffer, flushTimer, bufferTimer,
                    dataListeners, procVars, restoreTimers, nudgeTimers, killTimer,
                    scope, validation, terminal, produced >>

\* The catch of a message that did not parse, with none of the replies it is to make.
malformedRepliesNone(ws, message) == << >>

\* ws.on('message'), catch: ws.send({type: 'error', message: error.message})
malformedReplies(ws, message) == << Msg(ws, "error", "", message) >>

\* ws.on('message') for a message that JSON.parse rejects: the exception is
\* thrown before lastSeen and isAlive are updated.
MalformedMessage(ws) ==
    /\ IsOpen(ws)
    /\ Emit(malformedReplies(ws, "Unexpected token"), {})
    /\ UNCHANGED << connVars, wsSessions, allSessions, session, outputBuffer,
                    flushTimer, bufferTimer, dataListeners, procVars, restoreTimers, nudgeTimers,
                    killTimer, scope, validation, terminal, produced >>

\* case 'resize': handleResize
Resize(ws, target) ==
    /\ IsOpen(ws)
    /\ Seen(ws)
    /\ IF targetSession(ws, target) = {}
       THEN Emit(<< >>, {})
       ELSE \E sid \in targetSession(ws, target) :
               Emit(<< Msg("pty", "resize", sid, "cols,rows") >>, {})
    /\ UNCHANGED << wsSessions, allSessions, session, outputBuffer, flushTimer, bufferTimer,
                    dataListeners, procVars, restoreTimers, nudgeTimers, killTimer,
                    scope, validation, terminal, produced >>

\* A close handler that clears the owner of the sessions the connection owns.
ownerAfterCloseCleared(ws, sid) ==
    IF session[sid].currentWs = ws THEN NoWs ELSE session[sid].currentWs

\* ws.on('close') assigns to no session.currentWs: the sessions of the
\* closed connection keep it as their owner.
ownerAfterClose(ws, sid) == session[sid].currentWs

\* ws.on('close'): the connection is marked dead and the close timeout starts
WsClose(ws) ==
    /\ IsOpen(ws)
    /\ wsState' = [wsState EXCEPT ![ws] = "closed"]
    /\ isAlive' = [isAlive EXCEPT ![ws] = FALSE]
    /\ closeTimer' = [closeTimer EXCEPT ![ws] = TRUE]
    /\ cleanupSessionById(sessionsCleanedOnClose(ws), {})
    /\ session' = [sid \in SessionIds |->
                      [session[sid] EXCEPT !.currentWs = ownerAfterClose(ws, sid)]]
    /\ Emit(<< >>, {})
    /\ UNCHANGED << lastSeen, outputBuffer, dataListeners, pty, killed,
                    whichErrors, scope, validation, terminal, produced >>

\* A cleanup that keeps the entry of the connection.
entriesDeletedNone(ws) == {}

\* cleanupSession: wsSessions.delete(ws)
entriesDeleted(ws) == {ws}

\* The callback of the close timeout
CloseTimeout(ws) ==
    /\ closeTimer[ws]
    /\ lastSeen[ws] = "stale"
    /\ closeTimer' = [closeTimer EXCEPT ![ws] = FALSE]
    /\ IF ~isAlive[ws]
       THEN cleanupSessionById(cleanupSession(ws), entriesDeleted(ws))
       ELSE UNCHANGED << flushTimer, bufferTimer, signals, killTimer, allSessions, wsSessions,
                         restoreTimers, nudgeTimers >>
    /\ Emit(<< >>, {})
    /\ UNCHANGED << wsState, isAlive, lastSeen, session, outputBuffer,
                    dataListeners, pty, killed, whichErrors, scope, validation, terminal, produced >>

\* Three days pass without a message from ws.
ThresholdPasses(ws) ==
    /\ wsState[ws] # "new"
    /\ lastSeen[ws] = "recent"
    /\ restoreTimers = << >> /\ nudgeTimers = << >>
    /\ \A sid \in SessionIds : flushTimer[sid] = 0 /\ ~killTimer[sid]
    /\ \A c \in Conns : ~whichErrors[c]
    /\ lastSeen' = [lastSeen EXCEPT ![ws] = "stale"]
    /\ Emit(<< >>, {})
    /\ UNCHANGED << wsState, isAlive, closeTimer, wsSessions, allSessions, session,
                    outputBuffer, flushTimer, bufferTimer, dataListeners, procVars, restoreTimers,
                    nudgeTimers, killTimer, scope, validation, terminal, produced >>

\* ------------------------------------------------- process events
\* A pipeline that sends to the first connection that lists the session.
flushTargetFirstListing(sid) ==
    LET L == { i \in 1..Len(ConnOrder) : /\ wsSessions[ConnOrder[i]] # NoEntry
                                         /\ Includes(wsSessions[ConnOrder[i]], sid) }
    IN  IF L = {} THEN session[sid].currentWs
        ELSE ConnOrder[CHOOSE i \in L : \A j \in L : i <= j]

\* The pipeline reads session.currentWs when it runs, not when it was set up.
flushTarget(sid) == session[sid].currentWs

\* ptyProcess emits 'data'
PtyData(sid, shape) ==
    /\ pty[sid] = "running"
    /\ SumLen(produced, SessionIds) + Len(shape) <= scope.units
    /\ LET output == Units(shape, Len(produced[sid]))
           ws == flushTarget(sid)
           h == emitData(Pipeline(sid), sid, ws, IsOpen(ws), shape, output,
                         dataListeners[sid])
       IN  /\ produced' = [produced EXCEPT ![sid] = @ \o output]
           /\ StorePipeline(sid, h)
           /\ Emit(<< Msg("pty", "data", sid, shape) >> \o h.out, {})
    /\ UNCHANGED << connVars, wsSessions, allSessions, dataListeners, procVars,
                    killTimer, scope, validation, terminal >>

\* The 16 ms timeout fires: flushBuffer
FlushTimerFires(sid) ==
    /\ flushTimer[sid] > 0
    /\ LET ws == flushTarget(sid)
           h == flushBuffer([Pipeline(sid) EXCEPT !.timer = @ - 1], sid, ws, IsOpen(ws))
       IN  /\ StorePipeline(sid, h)
           /\ Emit(h.out, {})
    /\ UNCHANGED << connVars, wsSessions, allSessions, dataListeners, procVars,
                    killTimer, scope, validation, terminal, produced >>

\* ptyProcess emits 'exit': the exit message, then cleanupSessionById
PtyExit(sid) ==
    /\ pty[sid] = "running"
    /\ pty' = [pty EXCEPT ![sid] = "exited"]
    /\ cleanupSessionById({sid}, {})
    /\ Emit(<< Msg(session[sid].currentWs, "exit", sid, "0") >>, {})
    /\ UNCHANGED << connVars, session, outputBuffer, dataListeners, killed,
                    whichErrors, scope, validation, terminal, produced >>

\* An error handler that reports to every open connection.
errorRepliesToAll(sid, message) ==
    Delivered([i \in 1..Len(ConnOrder) |-> Msg(ConnOrder[i], "error", "", message)])

\* ptyProcess.on('error'): the error goes to the current WebSocket if it is
\* open.
errorReplies(sid, message) ==
    IF IsOpen(session[sid].currentWs)
    THEN << Msg(session[sid].currentWs, "error", "", message) >>
    ELSE << >>

\* ptyProcess emits 'error'
PtyError(sid) ==
    /\ session[sid].spawned
    /\ Emit(errorReplies(sid, "read EIO"), {})
    /\ UNCHANGED << connVars, wsSessions, allSessions, session, outputBuffer,
                    flushTimer, bufferTimer, dataListeners, procVars, restoreTimers,
                    nudgeTimers, killTimer, scope, validation, terminal, produced >>

\* The process adapter flags a process it has signalled as killed.
PtyFlagKilled(sid) ==
    /\ signals[sid] # << >>
    /\ ~killed[sid]
    /\ killed' = [killed EXCEPT ![sid] = TRUE]
    /\ Emit(<< >>, {})
    /\ UNCHANGED << connVars, wsSessions, allSessions, session, outputBuffer,
                    flushTimer, bufferTimer, dataListeners, pty, signals, whichErrors,
                    restoreTimers, nudgeTimers, killTimer, scope, validation, terminal, produced >>

\* ------------------------------------------------- timers
\* A restore that carries the newest unit of the rolling buffer only.
restoredDataNewest(sid) ==
    IF session[sid].terminalBuffer = << >> THEN << >>
    ELSE Tail(session[sid].terminalBuffer)

\* data: foundSession.terminalBuffer
restoredData(sid) == session[sid].terminalBuffer

\* The 500 ms settle timeout of a reconnect fires: buffer-restore
RestoreTimerFires ==
    /\ restoreTimers # << >>
    /\ Head(restoreTimers).after = {}
    /\ LET t == Head(restoreTimers) IN
        Emit(IF session[t.sid].spawned /\ ~killed[t.sid]
             THEN << Msg(t.ws, "buffer-restore", t.sid, restoredData(t.sid)) >>
             ELSE << >>,
             t.pre)
    /\ restoreTimers' = Tail(restoreTimers)
    /\ UNCHANGED << connVars, wsSessions, allSessions, session, outputBuffer,
                    flushTimer, bufferTimer, dataListeners, procVars, nudgeTimers, killTimer,
                    scope, validation, terminal, produced >>

\* The 200 ms timeout of a reconnect with an empty buffer fires: write '\r'
NudgeTimerFires ==
    /\ nudgeTimers # << >>
    /\ Head(nudgeTimers).after = {}
    /\ LET sid == Head(nudgeTimers).sid IN
        Emit(IF session[sid].spawned /\ ~killed[sid]
             THEN << Msg("pty", "write", sid, "\\r") >>
             ELSE << >>,
             {})
    /\ nudgeTimers' = Tail(nudgeTimers)
    /\ UNCHANGED << connVars, wsSessions, allSessions, session, outputBuffer,
                    flushTimer, bufferTimer, dataListeners, procVars, restoreTimers, killTimer,
                    scope, validation, terminal, produced >>

\* The 5 s timeout of cleanupSessionById fires: SIGKILL unless flagged killed
KillTimerFires(sid) ==
    /\ killTimer[sid]
    /\ killTimer' = [killTimer EXCEPT ![sid] = FALSE]
    /\ signals' = IF ~killed[sid] THEN [signals EXCEPT ![sid] = Append(@, "SIGKILL")]
                  ELSE signals
    /\ Emit(<< >>, {})
    /\ UNCHANGED << connVars, wsSessions, allSessions, session, outputBuffer,
                    flushTimer, bufferTimer, dataListeners, pty, killed, whichErrors,
                    restoreTimers, nudgeTimers, scope, validation, terminal, produced >>

\* The setInterval callback (every 10 s): the stale-session sweep
Sweep ==
    /\ \E ws \in Conns : wsState[ws] # "new"
    /\ cleanupSessionById(StaleSessions, {})
    /\ Emit(<< >>, {})
    /\ UNCHANGED << connVars, session, outputBuffer, dataListeners, pty, killed,
                    whichErrors, scope, validation, terminal, produced >>

\* ------------------------------------------------- the sessions API
\* DELETE /api/sessions/:sessionId
DeleteSession(sid) ==
    /\ IF sessionFound(sid)
       THEN /\ cleanupSessionById({sid}, {})
            /\ Emit(<< Msg("http", "200", sid, "Session removed successfully") >>, {})
       ELSE /\ Emit(<< Msg("http", "404", sid, "Session not found") >>, {})
            /\ UNCHANGED << flushTimer, bufferTimer, signals, killTimer, allSessions, wsSessions,
                            restoreTimers, nudgeTimers >>
    /\ UNCHANGED << connVars, session, outputBuffer, dataListeners, pty, killed,
                    whichErrors, scope, validation, terminal, produced >>

\* GET /api/sessions: the snapshot of the sessions whose process is not
\* flagged killed; isConnected looks for an OPEN connection listing the id.
listActive ==
    { [ sessionId   |-> sid,
        workingDir  |-> session[sid].workingDir,
        isConnected |-> \E ws \in Conns : /\ wsSessions[ws] # NoEntry
                                          /\ Includes(wsSessions[ws], sid)
                                          /\ wsState[ws] = "open",
        bufferSize  |-> Len(session[sid].terminalBuffer) ]
      : sid \in { s \in allSessions : session[s].spawned /\ ~killed[s] } }

\* ------------------------------------------------- specification
Next ==
    \/ \E ws \in Conns : WsConnect(ws)
    \/ \E ws \in Conns : Ping(ws)
    \/ \E ws \in Conns, path \in PathInputs : StartSessionInvalid(ws, path)
    \/ \E ws \in Conns, path \in PathInputs, found \in BOOLEAN :
          StartSessionSpawnFails(ws, path, found)
    \/ \E ws \in Conns, path \in PathInputs, found \in BOOLEAN :
          StartSession(ws, path, found)
    \/ \E ws \in Conns, sid \in SessionIds : ReconnectSession(ws, sid)
    \/ \E ws \in Conns, target \in Targets : Input(ws, target)
    \/ \E ws \in Conns, target \in Targets : Resize(ws, target)
    \/ \E ws \in Conns : WsClose(ws)
    \/ \E ws \in Conns : CloseTimeout(ws)
    \/ \E ws \in Conns : ThresholdPasses(ws)
    \/ \E sid \in SessionIds, shape \in ChunkShapes : PtyData(sid, shape)
    \/ \E sid \in SessionIds : FlushTimerFires(sid)
    \/ \E sid \in SessionIds : PtyExit(sid)
    \/ \E sid \in SessionIds : PtyFlagKilled(sid)
    \/ RestoreTimerFires
    \/ NudgeTimerFires
    \/ \E sid \in SessionIds : KillTimerFires(sid)
    \/ Sweep
    \/ \E sid \in SessionIds : DeleteSession(sid)

Spec == Init /\ [][Next]_vars

\* The output pipeline of one session, within three days and with no
\* process flagged killed.
NextOutput ==
    \/ \E ws \in Conns : WsConnect(ws)
    \/ \E ws \in Conns, path \in PathInputs, found \in BOOLEAN :
          StartSession(ws, path, found)
    \/ \E ws \in Conns, sid \in SessionIds : ReconnectSession(ws, sid)
    \/ \E ws \in Conns : WsClose(ws)
    \/ \E sid \in SessionIds, shape \in ChunkShapes : PtyData(sid, shape)
    \/ \E sid \in SessionIds : FlushTimerFires(sid)
    \/ \E sid \in SessionIds : PtyExit(sid)
    \/ RestoreTimerFires
    \/ NudgeTimerFires
    \/ \E sid \in SessionIds : DeleteSession(sid)

OutputSpec == InitOutput /\ [][NextOutput]_vars

\* The ownership of several sessions over time, with no output.
NextOwnership ==
    \/ \E ws \in Conns : WsConnect(ws)
    \/ \E ws \in Conns : Ping(ws)
    \/ \E ws \in Conns : MalformedMessage(ws)
    \/ \E ws \in Conns, path \in PathInputs, found \in BOOLEAN :
          StartSession(ws, path, found)
    \/ \E ws \in Conns, sid \in SessionIds : ReconnectSession(ws, sid)
    \/ \E ws \in Conns : WsClose(ws)
    \/ \E ws \in Conns : CloseTimeout(ws)
    \/ \E ws \in Conns : ThresholdPasses(ws)
    \/ NudgeTimerFires
    \/ \E sid \in SessionIds : KillTimerFires(sid)
    \/ Sweep
    \/ \E sid \in SessionIds : PtyExit(sid)
    \/ \E sid \in SessionIds : DeleteSession(sid)

OwnershipSpec == InitOwnership /\ [][NextOwnership]_vars

\* Starting sessions and addressing them.
NextStart ==
    \/ \E ws \in Conns : WsConnect(ws)
    \/ \E ws \in Conns : MalformedMessage(ws)
    \/ \E sid \in SessionIds : PtyError(sid)
    \/ \E ws \in Conns, path \in PathInputs : StartSessionInvalid(ws, path)
    \/ \E ws \in Conns, path \in PathInputs, found \in BOOLEAN :
          StartSessionSpawnFails(ws, path, found)
    \/ \E ws \in Conns, path \in PathInputs, found \in BOOLEAN :
          StartSession(ws, path, found)
    \/ \E ws \in Conns : WhichFails(ws)
    \/ \E ws \in Conns, sid \in SessionIds : ReconnectSession(ws, sid)
    \/ \E ws \in Conns, target \in Targets : Input(ws, target)
    \/ \E ws \in Conns, target \in Targets : Resize(ws, target)
    \/ \E ws \in Conns : WsClose(ws)
    \/ \E sid \in SessionIds : PtyExit(sid)
    \/ NudgeTimerFires
    \/ \E sid \in SessionIds : KillTimerFires(sid)
    \/ \E sid \in SessionIds : DeleteSession(sid)

StartSpec == InitStart /\ [][NextStart]_vars

\* Reconnects that overlap, with output.
\* The output pipeline where every scheduled flush timeout fires unless it
\* is cancelled: Node.js runs a timeout that is due.
InitFlushLive ==
    /\ InitState
    /\ validation = NoValidation
    /\ terminal = NoTerminal
    /\ scope = [sessions |-> 1, units |-> MaxLiveUnits, paths |-> {<< "/", "a" >>},
                timers |-> MaxPendingTimers, claude |-> {TRUE}, collisions |-> FALSE,
                prefix |-> NoPrefix]

FlushLiveSpec ==
    /\ InitFlushLive
    /\ [][NextOutput]_vars
    /\ \A sid \in SessionIds : WF_vars(FlushTimerFires(sid))

\* ------------------------------------------------- the client terminal
\* The kinds of message the component is given: an output message (the
\* component waits 10 ms after writing it) and an exit message (it does not
\* wait).
MessageKinds == { "output", "exit" }

\* await new Promise(resolve => setTimeout(resolve, 10)) after an output
Awaits(kind) == kind = "output"

\* processMessages from place c.i of the slice to the next await, or to the
\* end of the slice, where the counter is raised and processingRef cleared.
RECURSIVE processMessages(_)
processMessages(c) ==
    IF c.i > Len(c.unprocessedMessages)
    THEN [c EXCEPT !.processedMessagesRef = @ + Len(c.unprocessedMessages),
                   !.processingRef = FALSE,
                   !.unprocessedMessages = << >>, !.i = 0]
    ELSE LET m == c.unprocessedMessages[c.i]
             c1 == [c EXCEPT !.written = Append(@, m), !.i = @ + 1]
         IN  IF Awaits(c.messages[m]) THEN [c1 EXCEPT !.awaiting = TRUE]
             ELSE processMessages(c1)

\* useEffect(..., [messages]): the effect that runs when `messages` changed.
messagesEffect(c) ==
    IF Len(c.messages) > c.processedMessagesRef /\ c.xterm /\ ~c.processingRef
    THEN processMessages(
           [c EXCEPT !.processingRef = TRUE,
                     !.unprocessedMessages =
                         [j \in 1..(Len(c.messages) - c.processedMessagesRef)
                            |-> c.processedMessagesRef + j],
                     !.i = 1])
    ELSE c

ServerUnchanged ==
    UNCHANGED << connVars, wsSessions, allSessions, session, outputBuffer,
                 flushTimer, bufferTimer, dataListeners, procVars, restoreTimers,
                 nudgeTimers, killTimer, scope, validation, produced, io, received >>

\* requestAnimationFrame(initializeTerminal): xtermRef.current = xterm
InitializeTerminal ==
    /\ ~terminal.xterm
    /\ terminal' = [terminal EXCEPT !.xterm = TRUE]
    /\ ServerUnchanged

\* App: setMessages(prev => [...prev, data]); the component renders and the
\* effect on `messages` runs.
MessageArrives(kind) ==
    /\ Len(terminal.messages) < MaxClientMessages
    /\ terminal' = messagesEffect([terminal EXCEPT !.messages = Append(@, kind)])
    /\ ServerUnchanged

\* The timeout a run of processMessages awaits resolves: the run goes on.
TimeoutResolves ==
    /\ terminal.awaiting
    /\ terminal' = processMessages([terminal EXCEPT !.awaiting = FALSE])
    /\ ServerUnchanged

InitClient ==
    /\ InitState
    /\ validation = NoValidation
    /\ terminal = NoTerminal
    /\ scope = [sessions |-> 0, units |-> 0, paths |-> {}, timers |-> 0,
                claude |-> {TRUE}, collisions |-> FALSE, prefix |-> NoPrefix]

NextClient ==
    \/ InitializeTerminal
    \/ \E kind \in MessageKinds : MessageArrives(kind)
    \/ TimeoutResolves

\* The browser runs an animation frame and a timeout that are due; messages
\* arrive as the server sends them.
ClientSpec ==
    /\ InitClient
    /\ [][NextClient]_vars
    /\ WF_vars(InitializeTerminal)
    /\ WF_vars(TimeoutResolves)

NextPath == ValidatePath

PathSpec == InitPath /\ [][NextPath]_vars

NextReconnect ==
    \/ \E ws \in Conns : WsConnect(ws)
    \/ \E ws \in Conns, path \in PathInputs, found \in BOOLEAN :
          StartSession(ws, path, found)
    \/ \E ws \in Conns, sid \in SessionIds : ReconnectSession(ws, sid)
    \/ \E ws \in Conns : WsClose(ws)
    \/ \E sid \in SessionIds, shape \in ChunkShapes : PtyData(sid, shape)
    \/ \E sid \in SessionIds : FlushTimerFires(sid)
    \/ RestoreTimerFires
    \/ NudgeTimerFires

ReconnectSpec == InitReconnect /\ [][NextReconnect]_vars

\* ------------------------------------------------- properties
Owner(sid) == session[sid].currentWs

ErrorNotFound(ws) == Msg(ws, "error", "", "Session not found or terminated")

\* C1: a unit of output that arrives after a reconnect, while a live
\* connection is bound, is carried by exactly one delivered message: a
\* connection that was sent it in a buffer-restore is not sent it again in an
\* output message.
C1_OneCarrierAfterReconnect ==
    \A ws \in Conns, sid \in SessionIds :
        \A r \in received[ws][sid] : r[2] # "output-again-post"

\* C2: after start on A, output, close of A and reconnect on B, B is sent
\* the content of the rolling buffer produced before the close only once:
\* what a connection was sent of a live session in the buffer-restore, as
\* content from before its reconnect, is never sent to it again in an
\* output message.
C2_RestoredOnlyOnce ==
    \A ws \in Conns, sid \in allSessions :
        \A r \in received[ws][sid] : r[2] # "output-again-pre"

\* C3: a step that closes a connection signals no process and removes no
\* session from the registry; a session leaves the registry only in a step
\* of explicit deletion, process exit, the sweep or the close timeout.
C3_CloseNeverDestroys ==
    [][ /\ (\E ws \in Conns : WsClose(ws))
            => (allSessions' = allSessions /\ signals' = signals /\ pty' = pty)
        /\ (\E sid \in allSessions : sid \notin allSessions')
            => \/ \E sid \in SessionIds : DeleteSession(sid)
               \/ \E sid \in SessionIds : PtyExit(sid)
               \/ Sweep
               \/ \E ws \in Conns : CloseTimeout(ws) ]_vars

\* C3 witness: the owner of a registered session has closed and the process
\* of the session runs on, unsignalled.
C3_Witness ==
    \E sid \in allSessions :
        /\ wsState[Owner(sid)] = "closed"
        /\ pty[sid] = "running"
        /\ signals[sid] = << >>

\* C4 as stated: the sweep never terminates a session whose owning
\* connection is open, however long ago that connection was last seen.
C4_OpenOwnerNeverSwept ==
    [][ Sweep => \A sid \in allSessions :
                    IsOpen(Owner(sid)) => sid \in allSessions' ]_vars

\* C4 amended: the sweep never terminates a session whose owning connection
\* is open and was seen within the staleness threshold.
C4_SeenOwnerNeverSwept ==
    [][ Sweep => \A sid \in allSessions :
                    (IsOpen(Owner(sid)) /\ lastSeen[Owner(sid)] = "recent")
                        => sid \in allSessions' ]_vars

\* C4 witness: a session is registered whose owner is open and recently
\* seen, while another connection that lists it has gone stale.
C4_Witness ==
    \E sid \in allSessions, ws \in Conns :
        /\ IsOpen(Owner(sid)) /\ lastSeen[Owner(sid)] = "recent"
        /\ ws # Owner(sid)
        /\ wsSessions[ws] # NoEntry /\ Includes(wsSessions[ws], sid)
        /\ lastSeen[ws] = "stale"

\* C5: a session whose owning connection closed longer ago than the
\* staleness threshold (its close timeout has fired) is terminated by the
\* periodic sweep: it is among the sessions the sweep cleans up.
C5_OwnerlessIsSwept ==
    \A sid \in allSessions :
        ( /\ wsState[Owner(sid)] = "closed"
          /\ ~closeTimer[Owner(sid)]
          /\ lastSeen[Owner(sid)] = "stale" )
            => sid \in StaleSessions

\* C6: a reconnect-session naming an id that is not registered (unknown or
\* terminated) or whose process is flagged killed is answered by the one
\* error message and changes neither registry, ownership nor binding table.
C6_RejectedReconnect ==
    [][ \A ws \in Conns, sid \in SessionIds :
          (ReconnectSession(ws, sid) /\ (sid \notin allSessions \/ killed[sid]))
            => /\ io' = << ErrorNotFound(ws) >>
               /\ UNCHANGED << allSessions, session, wsSessions, dataListeners,
                               restoreTimers, nudgeTimers, signals, pty >> ]_vars

\* C6 witness: a terminated session exists and the last step answered a
\* request with the error.
C6_Witness ==
    \E ws \in Conns, sid \in SessionIds :
        /\ session[sid].spawned /\ sid \notin allSessions
        /\ io = << ErrorNotFound(ws) >>

\* C7: deleting an id that is not registered (unknown or already
\* terminated) is answered 404 'Session not found', signals no process and
\* changes nothing.
C7_DeleteNotFound ==
    [][ \A sid \in SessionIds :
          (DeleteSession(sid) /\ sid \notin allSessions)
            => /\ io' = << Msg("http", "404", sid, "Session not found") >>
               /\ UNCHANGED << connVars, wsSessions, allSessions, session,
                               outputBuffer, flushTimer, bufferTimer, dataListeners, procVars,
                               restoreTimers, nudgeTimers, killTimer, produced,
                               received >> ]_vars

\* C7 witness: the last step answered 404 to the deletion of a session that
\* had been terminated before.
C7_Witness ==
    \E sid \in SessionIds :
        /\ session[sid].spawned
        /\ io = << Msg("http", "404", sid, "Session not found") >>

C9_BufferIsRecentTail ==
    \A sid \in SessionIds :
        /\ Len(session[sid].terminalBuffer) <= TerminalBufferCap
        /\ session[sid].terminalBuffer = SliceLast(produced[sid], TerminalBufferCap)

\* C10: output that a registered session produces while its bound
\* connection is not live is appended to the rolling buffer.
C10_BufferedWhileOwnerless ==
    [][ \A sid \in SessionIds, shape \in ChunkShapes :
          (PtyData(sid, shape) /\ sid \in allSessions /\ ~IsOpen(Owner(sid)))
            => session'[sid].terminalBuffer =
                   AppendCapped(session[sid].terminalBuffer,
                                Units(shape, Len(produced[sid]))) ]_vars

SuccessfulReconnect(ws, sid) == ReconnectSession(ws, sid) /\ ~ReconnectRejected(sid)

Reconnected(ws, sid) == Msg(ws, "session-reconnected", sid, session[sid].workingDir)

\* C11: of the reconnects of two connections to one session, in either
\* order, the later one is the owner when both are done: every successful
\* reconnect makes the asking connection the one owner, starts no process
\* and leaves the registry with the one record of the session.
C11_LastReconnectOwns ==
    [][ \A ws \in Conns, sid \in SessionIds :
          SuccessfulReconnect(ws, sid)
            => /\ session'[sid].currentWs = ws
               /\ pty' = pty
               /\ allSessions' = allSessions /\ sid \in allSessions'
               /\ \A s \in SessionIds : session'[s].spawned = session[s].spawned ]_vars

\* C11 witness: the reconnects of two connections to the same session
\* overlap (the settle timeouts of both are pending), the session is
\* registered with its process running, and the owner is the later one.
C11_Witness ==
    /\ Len(restoreTimers) = 2
    /\ restoreTimers[1].sid = restoreTimers[2].sid
    /\ restoreTimers[1].ws # restoreTimers[2].ws
    /\ restoreTimers[1].sid \in allSessions
    /\ pty[restoreTimers[1].sid] = "running"
    /\ Owner(restoreTimers[1].sid) = restoreTimers[2].ws

\* The two strategies of a reconnect, as the step of the reconnect shows
\* them: with a rolling buffer, the acknowledgment alone and one settle
\* timeout for the connection; with none, the acknowledgment, then the
\* terminal-refresh, and no settle timeout.  No other step sends a
\* buffer-restore or a terminal-refresh.
StrategyChosen ==
    /\ \A ws \in Conns, sid \in SessionIds :
          SuccessfulReconnect(ws, sid)
            => IF session[sid].terminalBuffer # << >>
               THEN /\ io' = << Reconnected(ws, sid) >>
                    /\ Len(restoreTimers') = Len(restoreTimers) + 1
                    /\ restoreTimers'[Len(restoreTimers')].ws = ws
                    /\ restoreTimers'[Len(restoreTimers')].sid = sid
               ELSE /\ io' = << Reconnected(ws, sid), Msg(ws, "terminal-refresh", sid, "") >>
                    /\ restoreTimers' = restoreTimers
    /\ (\E i \in 1..Len(io') : io'[i].type \in { "buffer-restore", "terminal-refresh" })
            => \/ RestoreTimerFires
               \/ \E ws \in Conns, sid \in SessionIds : SuccessfulReconnect(ws, sid)
    /\ Len(restoreTimers') > Len(restoreTimers)
            => \E ws \in Conns, sid \in SessionIds : SuccessfulReconnect(ws, sid)

BufferRestore(t) == Msg(t.ws, "buffer-restore", t.sid, session[t.sid].terminalBuffer)

\* C12 as stated: each successful reconnect applies exactly one strategy,
\* and the settle timeout of a reconnect with a rolling buffer always sends
\* the one buffer-restore, carrying the whole rolling buffer, to the
\* connection (if it is still open).
C12_OneStrategyAlways ==
    [][ /\ StrategyChosen
        /\ (RestoreTimerFires /\ IsOpen(Head(restoreTimers).ws))
              => io' = << BufferRestore(Head(restoreTimers)) >> ]_vars

\* C12 amended: each successful reconnect applies exactly one strategy, and
\* the settle timeout sends the one buffer-restore, carrying the whole
\* rolling buffer, unless the process of the session has been flagged
\* killed by then; in that case nothing is sent.
C12_OneStrategyUnlessKilled ==
    [][ /\ StrategyChosen
        /\ (RestoreTimerFires /\ IsOpen(Head(restoreTimers).ws))
              => io' = IF killed[Head(restoreTimers).sid] THEN << >>
                       ELSE << BufferRestore(Head(restoreTimers)) >> ]_vars

\* C12 witness: the last step delivered a buffer-restore that carries the
\* rolling buffer of a registered session.
C12_Witness ==
    \E ws \in Conns, sid \in allSessions :
        /\ session[sid].terminalBuffer # << >>
        /\ io = << Msg(ws, "buffer-restore", sid, session[sid].terminalBuffer) >>

\* C13: a successful reconnect sends session-reconnected first, with the
\* sessionId and the workingDir of the session, which is the one the
\* session was created with: no step changes the workingDir of a
\* registered session, and a buffer-restore comes only from the settle
\* timeout that the reconnect started.
C13_ReconnectedComesFirst ==
    [][ /\ \A ws \in Conns, sid \in SessionIds :
              SuccessfulReconnect(ws, sid)
                => /\ Len(io') >= 1
                   /\ io'[1] = Reconnected(ws, sid)
                   /\ \A i \in 2..Len(io') : io'[i].type = "terminal-refresh"
        /\ \A sid \in allSessions :
              sid \in allSessions' => session'[sid].workingDir = session[sid].workingDir
        /\ \A i \in 1..Len(io') : io'[i].type = "buffer-restore" => RestoreTimerFires ]_vars

\* C13 witness: the last step answered a reconnect to a session with an
\* empty rolling buffer: the acknowledgment with the workingDir the session
\* was started in, then the terminal-refresh.
C13_Witness ==
    \E ws \in Conns, sid \in allSessions :
        /\ session[sid].workingDir = << "/", "a" >>
        /\ io = << Reconnected(ws, sid), Msg(ws, "terminal-refresh", sid, "") >>

HasError(msgs, ws) == \E i \in 1..Len(msgs) : msgs[i].to = ws /\ msgs[i].type = "error"

\* C14: an input message whose sessionId names no registered session, or
\* that carries no sessionId, is ignored: nothing is written to a process,
\* nothing is sent to the client, and registry, binding table and sessions
\* stay as they are.
C14_StrayInputIgnored ==
    [][ \A ws \in Conns, target \in Targets :
          (Input(ws, target) /\ target \notin allSessions)
            => /\ io' = << >>
               /\ UNCHANGED << allSessions, wsSessions, session, procVars >> ]_vars

\* C15: a start-session that succeeds spawns one process and registers one
\* new session under an id that no session had before, owned by the asking
\* connection, with one data listener installed; the id is appended to the
\* connection's binding-table array and session-started carries it.
C15_StartRegistersFresh ==
    [][ \A ws \in Conns, path \in PathInputs, found \in BOOLEAN :
          StartSession(ws, path, found)
            => \E sid \in SessionIds :
                 /\ ~session[sid].spawned
                 /\ sid \notin allSessions /\ allSessions' = allSessions \cup {sid}
                 /\ pty' = [pty EXCEPT ![sid] = "running"]
                 /\ session'[sid].currentWs = ws
                 /\ session'[sid].handlersSetup /\ dataListeners'[sid] = 1
                 /\ wsSessions' = [wsSessions EXCEPT ![ws] = Append(wsSessions[ws], sid)]
                 /\ \E i \in 1..Len(io') : io'[i] = Msg(ws, "session-started", sid, "") ]_vars

\* C16: a start-session whose path is rejected, or whose process cannot be
\* spawned (the claude command is not found, or spawn throws), reports an
\* error to the caller and leaves the registry and the binding table as
\* they were.
C16_FailedStartLeavesNothing ==
    [][ \A ws \in Conns, path \in PathInputs, found \in BOOLEAN :
          /\ (StartSessionInvalid(ws, path) \/ StartSessionSpawnFails(ws, path, found))
                => /\ HasError(io', ws)
                   /\ UNCHANGED << allSessions, wsSessions, session, pty >>
          /\ (StartSession(ws, path, found) /\ ~found)
                => UNCHANGED << allSessions, wsSessions, session, pty >> ]_vars

\* C17: a start-session whose raw path input the path validation rejects
\* (an empty or absent path included) fails with an error message and
\* creates no session.
C17_RejectedPathNeverStarts ==
    [][ \A ws \in Conns, path \in PathInputs, found \in BOOLEAN :
          ( /\ ~validateAndNormalizePath(path, getWorkingDirPrefix).isValid
            /\ \/ StartSessionInvalid(ws, path)
               \/ StartSessionSpawnFails(ws, path, found)
               \/ StartSession(ws, path, found) )
            => /\ HasError(io', ws)
               /\ UNCHANGED << allSessions, wsSessions, session, pty >> ]_vars

\* C18: when the process of a session exits, the exit message goes to the
\* bound connection if it is open, the session leaves the registry, and no
\* signal is sent to the process that has exited (none is scheduled either).
C18_ExitSendsNoSignal ==
    [][ \A sid \in SessionIds :
          PtyExit(sid)
            => /\ IsOpen(Owner(sid)) => io' = << Msg(Owner(sid), "exit", sid, "0") >>
               /\ sid \notin allSessions'
               /\ signals' = signals
               /\ killTimer' = killTimer ]_vars

\* C19: in every snapshot of GET /api/sessions the isConnected flag of a
\* session is true if and only if the connection the session is bound to is
\* open.
C19_ConnectedIffOwnerOpen ==
    \A e \in listActive : e.isConnected <=> IsOpen(Owner(e.sessionId))

\* C20: an id that was removed from the registry never gets back into it.
C20_NeverResurrected ==
    [][ \A sid \in SessionIds :
          (session[sid].spawned /\ sid \notin allSessions) => sid \notin allSessions' ]_vars

\* ------------------------------------------------- path validation (C21)
\* A path lies under a directory when the directory's segments begin the
\* path's segments.
UnderPrefix(str, dir) ==
    LET ps == resolvedSegments(str)
        ds == resolvedSegments(dir)
    IN  Len(ps) >= Len(ds) /\ SubSeq(ps, 1, Len(ds)) = ds

\* C21: with a working-directory prefix configured, every path that
\* validateAndNormalizePath accepts yields a normalizedPath under the prefix
\* directory.
C21_AcceptedStaysUnderPrefix ==
    (validation.prefix # NoPrefix /\ validation.result.isValid)
        => UnderPrefix(validation.result.normalizedPath, validation.prefix)

\* ------------------------------------------------- malformed messages (C22)
\* C22: a message that cannot be decoded is answered with exactly one error
\* message on the connection it came from; the connection stays open, and
\* no session, no ownership and no entry of the binding table changes.
C22_MalformedOnlyAnswered ==
    [][\A ws \in Conns : MalformedMessage(ws) =>
          /\ Len(io') = 1 /\ io'[1].to = ws /\ io'[1].type = "error"
          /\ wsState'[ws] = "open"
          /\ allSessions' = allSessions
          /\ session' = session
          /\ wsSessions' = wsSessions
          /\ UNCHANGED << outputBuffer, flushTimer, bufferTimer, dataListeners, procVars,
                          restoreTimers, nudgeTimers, killTimer >>]_vars

\* An undecodable message from a connection that owns a session was answered.
C22_Witness ==
    \E ws \in Conns, sid \in allSessions :
        /\ io = << Msg(ws, "error", "", "Unexpected token") >>
        /\ IsOpen(ws)
        /\ Owner(sid) = ws
        /\ wsSessions[ws] # NoEntry /\ Includes(wsSessions[ws], sid)

\* ------------------------------------------------- handler installation (C23)
\* C23: the handlersSetup flag of a session is set once, by the start of the
\* session, and is never cleared; a reconnect that finds it set binds the
\* session to the new connection and attaches no listener, so the process
\* of a session has one data listener throughout.
C23_HandlersInstalledOnce ==
    [][\A sid \in SessionIds :
          /\ session[sid].handlersSetup => session'[sid].handlersSetup
          /\ (~session[sid].handlersSetup /\ session'[sid].handlersSetup)
                => /\ sid \notin allSessions /\ sid \in allSessions'
                   /\ ~session[sid].spawned
                   /\ dataListeners[sid] = 0 /\ dataListeners'[sid] = 1
          /\ sid \in allSessions' => session'[sid].handlersSetup
          /\ \A ws \in Conns :
                SuccessfulReconnect(ws, sid)
                  => /\ session[sid].handlersSetup
                     /\ dataListeners'[sid] = dataListeners[sid]
                     /\ dataListeners'[sid] = 1
                     /\ session'[sid].currentWs = ws]_vars

\* A session started on one connection was reconnected from another.
C23_Witness ==
    \E ws \in Conns, sid \in allSessions :
        /\ Len(io) > 0 /\ io[1] = Reconnected(ws, sid)
        /\ \E other \in Conns \ {ws} :
              wsSessions[other] # NoEntry /\ Includes(wsSessions[other], sid)
        /\ Owner(sid) = ws
        /\ session[sid].handlersSetup /\ dataListeners[sid] = 1

\* ------------------------------------------------- the flush timer (C24)
\* C24: a session has at most one flush timeout outstanding at any time.
C24_OneFlushTimer ==
    \A sid \in SessionIds : flushTimer[sid] <= 1

\* A second chunk arrived while the timeout of the first was scheduled, and
\* one timeout is scheduled for both.
C24_Witness ==
    \E sid \in allSessions :
        /\ flushTimer[sid] = 1
        /\ Len(outputBuffer[sid]) >= 2
        /\ IsOpen(Owner(sid))

\* ------------------------------------------------- terminate and the flush timer (C25)
\* C25: the step that terminates a session leaves no flush timeout of it
\* scheduled, whatever came before (output, then a reconnect, then the
\* terminate), and no output message is sent for a session that has been
\* terminated.
C25_TerminateCancelsFlush ==
    [][\A sid \in SessionIds :
          /\ (sid \in allSessions /\ sid \notin allSessions') => flushTimer'[sid] = 0
          /\ (session[sid].spawned /\ sid \notin allSessions)
                => /\ flushTimer'[sid] = 0
                   /\ \A i \in 1..Len(io') :
                         ~(io'[i].type = "output" /\ io'[i].sid = sid)]_vars

\* ------------------------------------------------- the immediate flush (C26)
\* C26: a chunk with a screen-clear (ESC[2J) or cursor-home (ESC[H) sequence
\* that arrives while the session's connection is open is sent at once,
\* together with the chunks accumulated before it, in one output message;
\* afterwards the accumulator is empty and no flush timeout is scheduled.
C26_ClearFlushesAtOnce ==
    [][\A sid \in SessionIds, shape \in ChunkShapes :
          (/\ PtyData(sid, shape)
           /\ OutputIncludes(shape, "ESC[2J") \/ OutputIncludes(shape, "ESC[H")
           /\ IsOpen(Owner(sid)))
            => /\ SelectSeq(io', LAMBDA m : m.type = "output")
                    = << Msg(Owner(sid), "output", sid,
                             outputBuffer[sid] \o Units(shape, Len(produced[sid]))) >>
               /\ outputBuffer'[sid] = << >>
               /\ flushTimer'[sid] = 0]_vars

\* A chunk with a control sequence arrived while an earlier chunk was
\* waiting for its timeout, and both were sent in one message.
C26_Witness ==
    \E sid \in allSessions, shape \in ChunkShapes :
        /\ OutputIncludes(shape, "ESC[2J") \/ OutputIncludes(shape, "ESC[H")
        /\ Len(io) = 2
        /\ io[1] = Msg("pty", "data", sid, shape)
        /\ io[2].type = "output" /\ io[2].to = Owner(sid)
        /\ Len(io[2].data) > Len(shape)
        /\ outputBuffer[sid] = << >> /\ flushTimer[sid] = 0

\* ------------------------------------------------- order of output (C27)
\* The units of a session that some connection has been sent in an output
\* message.
SentAsOutput(sid) ==
    { p \in Positions(produced[sid]) :
        \E ws \in Conns, how \in { "output", "output-again-pre", "output-again-post" } :
            << p, how >> \in received[ws][sid] }

\* C27: the output messages of a session carry the units of its process in
\* the order the process produced them: within one message the units are in
\* production order, and every unit of a message was produced after every
\* unit sent in an output message before it.
C27_OutputKeepsOrder ==
    [][\A i \in 1..Len(io') :
          io'[i].type = "output"
            => LET d == io'[i].data
               IN  /\ \A j \in 1..(Len(d) - 1) : d[j] < d[j + 1]
                   /\ \A q \in SentAsOutput(io'[i].sid) : q < d[1]
                   /\ \A k \in 1..(i - 1) :
                         (io'[k].type = "output" /\ io'[k].sid = io'[i].sid)
                           => io'[k].data[Len(io'[k].data)] < d[1]]_vars

\* An output message of several units followed an earlier output message
\* to the same connection.
C27_Witness ==
    \E i \in 1..Len(io) :
        /\ io[i].type = "output"
        /\ Len(io[i].data) >= 2
        /\ IsOpen(io[i].to)
        /\ \E q \in 1..MaxOutputUnits :
              /\ q < io[i].data[1]
              /\ << q, "output" >> \in received[io[i].to][io[i].sid]

\* ------------------------------------------------- delivery of output (C28)
\* The process of the session has just written a chunk that holds unit p,
\* and the connection bound to the session is open.
ChunkReceived(sid, p) ==
    /\ Len(io) > 0 /\ io[1] = Msg("pty", "data", sid, io[1].data)
    /\ p \in (Len(produced[sid]) - Len(io[1].data) + 1)..Len(produced[sid])
    /\ IsOpen(Owner(sid))

\* Unit p of the session has been sent to ws in an output message.
OutputSentTo(ws, sid, p) ==
    \E how \in { "output", "output-again-pre", "output-again-post" } :
        << p, how >> \in received[ws][sid]

\* C28: a chunk received while an open connection is bound is eventually
\* sent to that connection in an output message, unless that connection
\* closes.
C28_DeliveredToSameConnection ==
    \A sid \in SessionIds, ws \in Conns, p \in 1..MaxLiveUnits :
        (ChunkReceived(sid, p) /\ Owner(sid) = ws)
            ~> (OutputSentTo(ws, sid, p) \/ ~IsOpen(ws))

\* ------------------------------------------------- signals (C29)
\* C29: a signal is sent only to a process that is not flagged killed and
\* has not exited; the first signal of a process is SIGTERM; SIGKILL is sent
\* only by the timeout that ends the 5 s after SIGTERM.
C29_GracefulThenForceful ==
    [][\A sid \in SessionIds :
          signals'[sid] # signals[sid]
            => /\ ~killed[sid]
               /\ pty'[sid] = "running"
               /\ \E sig \in { "SIGTERM", "SIGKILL" } :
                     /\ signals'[sid] = Append(signals[sid], sig)
                     /\ sig = "SIGTERM" => signals[sid] = << >>
                     /\ sig = "SIGKILL" => /\ signals[sid] = << "SIGTERM" >>
                                           /\ killTimer[sid] /\ ~killTimer'[sid]]_vars

\* ------------------------------------------------- close and re-owned sessions (C30)
\* C30: the close of a connection and the cleanup its close timeout runs
\* leave every session that another connection owns as it is: registered,
\* with its record, process, signals, timers and buffer unchanged, and
\* listed by the connections other than the closed one that listed it.
C30_CloseSparesReowned ==
    [][\A ws \in Conns :
          (WsClose(ws) \/ CloseTimeout(ws))
            => \A sid \in allSessions :
                 Owner(sid) # ws
                   => /\ sid \in allSessions'
                      /\ session'[sid] = session[sid]
                      /\ pty'[sid] = pty[sid] /\ killed'[sid] = killed[sid]
                      /\ signals'[sid] = signals[sid]
                      /\ killTimer'[sid] = killTimer[sid]
                      /\ flushTimer'[sid] = flushTimer[sid]
                      /\ outputBuffer'[sid] = outputBuffer[sid]
                      /\ \A other \in Conns \ {ws} :
                            (wsSessions[other] # NoEntry /\ Includes(wsSessions[other], sid))
                              => Includes(wsSessions'[other], sid)]_vars

\* The close timeout of a connection has run its cleanup, and a session the
\* connection had started, which another connection reconnected to, is
\* still registered and owned by that other connection.
C30_Witness ==
    \E ws \in Conns, other \in Conns :
        /\ ws # other
        /\ wsState[ws] = "closed" /\ ~closeTimer[ws] /\ wsSessions[ws] = NoEntry
        /\ "s1" \in allSessions /\ Owner("s1") = other
        /\ wsSessions[other] = << "s2", "s1" >>
        /\ signals["s1"] = << >>


\* ------------------------------------------------- repeated restores (C31)
\* C31: a reconnect and the buffer-restore it sends leave the rolling buffer
\* of the session as it is: the buffer changes only when the process writes,
\* and every buffer-restore carries the whole of it, so reconnects with no
\* output between them are sent the same content.
C31_RestoreLeavesBuffer ==
    [][/\ \A sid \in SessionIds :
             session'[sid].terminalBuffer # session[sid].terminalBuffer
               => \E shape \in ChunkShapes : PtyData(sid, shape)
       /\ \A ws \in Conns, sid \in SessionIds :
             SuccessfulReconnect(ws, sid)
               => session'[sid].terminalBuffer = session[sid].terminalBuffer
       /\ \A i \in 1..Len(io') :
             io'[i].type = "buffer-restore"
               => /\ io'[i].data = session[io'[i].sid].terminalBuffer
                  /\ session'[io'[i].sid].terminalBuffer = io'[i].data]_vars

\* A second reconnect, from another connection, has been sent the buffer
\* that the first was sent.
C31_Witness ==
    \E ws \in Conns, sid \in allSessions :
        /\ io = << Msg(ws, "buffer-restore", sid, session[sid].terminalBuffer) >>
        /\ session[sid].terminalBuffer # << >>
        /\ \E other \in Conns \ {ws} :
              \A p \in Positions(session[sid].terminalBuffer) :
                  << p, "restore-pre" >> \in received[other][sid]

\* ------------------------------------------------- entries of closed connections (C32)
\* C32 as stated: no closed connection is a key of the binding table.
C32_ClosedHasNoEntry ==
    \A ws \in Conns : wsState[ws] = "closed" => wsSessions[ws] = NoEntry

\* C32: a closed connection is a key of the binding table exactly as long
\* as its close timeout is pending; the cleanup the timeout runs removes
\* the entry.
C32_ClosedEntryUntilTimeout ==
    \A ws \in Conns :
        wsState[ws] = "closed" => (wsSessions[ws] = NoEntry <=> ~closeTimer[ws])

\* The close timeout of a connection that had started a session has fired.
C32_Witness ==
    \E ws \in Conns, sid \in SessionIds :
        /\ wsState[ws] = "closed" /\ ~closeTimer[ws] /\ wsSessions[ws] = NoEntry
        /\ session[sid].spawned /\ Owner(sid) = ws

\* ------------------------------------------------- process errors (C33)
\* C33: an error event of the process of a session sends one error message
\* to the connection bound to the session if that connection is open, and
\* changes nothing else: the registry, the owner and the buffers of the
\* session, its process and every timer are as before.
C33_ProcessErrorOnlyReported ==
    [][\A sid \in SessionIds :
          PtyError(sid)
            => /\ io' = IF IsOpen(Owner(sid))
                         THEN << Msg(Owner(sid), "error", "", "read EIO") >>
                         ELSE << >>
               /\ UNCHANGED << allSessions, session, wsSessions, outputBuffer, pty,
                               killed, signals, flushTimer, killTimer, restoreTimers,
                               nudgeTimers >>]_vars

\* The error of a running process was reported to the open connection that
\* owns its session, and the session is registered as before.
C33_Witness ==
    \E sid \in allSessions :
        /\ io = << Msg(Owner(sid), "error", "", "read EIO") >>
        /\ IsOpen(Owner(sid))
        /\ pty[sid] = "running" /\ signals[sid] = << >>
        /\ \E other \in Conns \ {Owner(sid)} : IsOpen(other)

\* ------------------------------------------------- the client terminal (C34)
\* What was written is the messages from the first on, each once, in the
\* order of the list.
WrittenInOrder ==
    \A j \in 1..Len(terminal.written) : terminal.written[j] = j

\* C34: the Terminal component writes every message of its list once and
\* in the order of the list; every message is written eventually, also one
\* that arrives while a run of processMessages is waiting.
C34_EveryMessageWrittenOnce ==
    /\ []WrittenInOrder
    /\ \A k \in 1..MaxClientMessages :
          (Len(terminal.messages) >= k) ~> (Len(terminal.written) >= k)

SigtermCount(sid) ==
    Cardinality({ i \in 1..Len(signals[sid]) : signals[sid][i] = "SIGTERM" })

\* C36: whatever termination paths run over a session (DELETE, the sweep,
\* the close timeout, the exit of the process), in any order and however
\* often, the process of the session is sent SIGTERM at most once.
C36_SigtermAtMostOnce ==
    \A sid \in SessionIds : SigtermCount(sid) <= 1

\* A session was terminated, its process was sent SIGTERM and then SIGKILL,
\* and the exit handler has then run cleanupSessionById for it once more.
C36_Witness ==
    \E sid \in SessionIds :
        /\ signals[sid] = << "SIGTERM", "SIGKILL" >>
        /\ pty[sid] = "exited"
        /\ sid \notin allSessions
        /\ io = << Msg(session[sid].currentWs, "exit", sid, "0") >>

\* ------------------------------------------------- output after a hand-over (C37)
\* C37: once a reconnect has passed a session from connection A to
\* connection B, A is sent no output message of the session, open or not,
\* unless A reconnects to it again: every output message goes to the owner
\* of its session, and a connection becomes the owner of a session only by
\* a start-session or a reconnect of its own.
C37_OutputOnlyToOwner ==
    /\ [](\A i \in 1..Len(io) :
             (io[i].type = "output" /\ io[i].to \in Conns)
                => io[i].to = Owner(io[i].sid))
    /\ [][\A ws \in Conns, sid \in SessionIds :
             (Owner(sid) # ws /\ session'[sid].currentWs = ws)
                => \/ SuccessfulReconnect(ws, sid)
                   \/ \E path \in PathInputs, found \in BOOLEAN :
                         StartSession(ws, path, found)]_vars

\* A connection that was sent output of a session is open and no longer the
\* owner, and an output message of the session has just gone to the owner.
C37_Witness ==
    \E A, B \in Conns, sid \in SessionIds :
        /\ A # B
        /\ IsOpen(A)
        /\ Owner(sid) = B
        /\ \E p \in Positions(produced[sid]) : << p, "output" >> \in received[A][sid]
        /\ \E i \in 1..Len(io) : io[i] = Msg(B, "output", sid, io[i].data)

\* ------------------------------------------------- input with no session id (C38)
\* C38: an input or resize message that names no session is applied only to
\* a session that the sender lists and currently owns; it never reaches the
\* process of a session that another connection owns.
C38_FallbackOnlyOwn ==
    [][\A ws \in Conns :
          (Input(ws, NoTarget) \/ Resize(ws, NoTarget))
            => \A i \in 1..Len(io') :
                 io'[i].to = "pty"
                   => /\ Owner(io'[i].sid) = ws
                      /\ wsSessions[ws] # NoEntry
                      /\ Includes(wsSessions[ws], io'[i].sid)]_vars

\* Two open connections list a session, one of them owns it after a
\* reconnect, and an input has been written to its process.
C38_Witness ==
    \E A, B \in Conns, sid \in SessionIds :
        /\ A # B /\ IsOpen(A) /\ IsOpen(B)
        /\ wsSessions[A] # NoEntry /\ Includes(wsSessions[A], sid)
        /\ wsSessions[B] # NoEntry /\ Includes(wsSessions[B], sid)
        /\ Owner(sid) = B
        /\ io = << Msg("pty", "write", sid, "input") >>

\* ------------------------------------------------- the sweep and seen connections (C39)
\* The handler that ran last was the one for a message of ws that did not
\* parse: ws has just sent a message.
JustSentUndecodable(ws) == io = malformedReplies(ws, "Unexpected token")

\* C39: the sweep never terminates a session while some connection whose
\* entry lists it has been seen within the staleness threshold, that is, has
\* sent any message within it: one that refreshed lastSeen or, a moment
\* before the sweep, one that did not parse.
C39_SeenNeverSwept ==
    [][Sweep => \A sid \in allSessions :
                  (\E ws \in Conns :
                      /\ wsSessions[ws] # NoEntry
                      /\ Includes(wsSessions[ws], sid)
                      /\ (lastSeen[ws] = "recent" \/ JustSentUndecodable(ws)))
                    => sid \in allSessions']_vars

\* ------------------------------------------------- changes of the owner (C40)
\* C40: the owner reference of a session changes only in a start-session
\* and in a successful reconnect-session, to the connection that asked; the
\* close of a connection and its timeout, process output, the flush, ping,
\* input, resize and the sweep leave the owner of every session unchanged.
C40_OwnerChangesOnlyOnBind ==
    [][\A sid \in SessionIds :
          session'[sid].currentWs # session[sid].currentWs
            => /\ \E ws \in Conns :
                    /\ session'[sid].currentWs = ws
                    /\ \/ SuccessfulReconnect(ws, sid)
                       \/ \E path \in PathInputs, found \in BOOLEAN :
                             StartSession(ws, path, found)
               /\ ~ \E ws \in Conns : WsClose(ws) \/ CloseTimeout(ws) \/ Ping(ws)
               /\ ~ \E ws \in Conns, target \in Targets :
                       Input(ws, target) \/ Resize(ws, target)
               /\ ~ \E s \in SessionIds, shape \in ChunkShapes : PtyData(s, shape)
               /\ ~ \E s \in SessionIds : FlushTimerFires(s)
               /\ ~ Sweep]_vars

\* A session passed from one connection to another by a reconnect, the new
\* owner has closed, and the session still refers to it as its owner.
C40_Witness ==
    \E A, B \in Conns, sid \in allSessions :
        /\ A # B
        /\ Owner(sid) = B
        /\ wsState[B] = "closed" /\ closeTimer[B]
        /\ IsOpen(A)
        /\ wsSessions[A] # NoEntry /\ Includes(wsSessions[A], sid)

====
